---- MODULE Spec2Model ----
(***************************************************************************)
(* Provider-configuration migrator (update_all_providers.py and            *)
(* update_providers.py): the regular-expression passes that rewrite        *)
(* `providers: { <name>: { apiKey: ... } }` into the nested `default:`     *)
(* shape, and the two drivers that read, transform and write files.        *)
(*                                                                         *)
(* A text is the sequence of its lexemes: a maximal run of word characters *)
(* ([A-Za-z0-9_], Python's \w) is one lexeme, every other character is a   *)
(* lexeme of its own.  No word of the vocabulary has a literal of a        *)
(* pattern (providers, apiKey, default, process, env, return, const) as a  *)
(* proper suffix or prefix, so a pattern literal matches a text exactly    *)
(* where it matches a whole lexeme, and \w+ matches exactly one lexeme.    *)
(***************************************************************************)
EXTENDS Integers, Sequences, FiniteSets, TLC

(***************************************************************************)
(* Lexemes                                                                 *)
(***************************************************************************)
LowerWords == {"providers", "default", "process", "env", "return", "const",
               "openai", "anthropic", "google", "apikey", "config", "sk",
               "foo", "bar", "x"}
MixedWords == {"apiKey", "OpenAI", "baseUrl", "KEY", "OPENAI_KEY"}

\* Python's \w+ : one word lexeme
Word == LowerWords \cup MixedWords

\* Python's \s
Space == {" ", "\n", "\t", "\r"}

\* str.lower() on a word
Lower(w) ==
    CASE w = "apiKey" -> "apikey"
      [] w = "OpenAI" -> "openai"
      [] w = "baseUrl" -> "baseurl"
      [] w = "KEY" -> "key"
      [] w = "OPENAI_KEY" -> "openai_key"
      [] OTHER -> w

\* n spaces (the indentation written by the f-strings)
Sp(n) == [k \in 1..n |-> " "]

\* the concatenation of ss[lo], ..., ss[hi], in order
RECURSIVE Concat(_, _, _)
Concat(ss, lo, hi) ==
    IF lo > hi THEN <<>>
    ELSE IF lo = hi THEN ss[lo]
    ELSE Concat(ss, lo, (lo + hi) \div 2) \o Concat(ss, (lo + hi) \div 2 + 1, hi)

\* `needle in s`
Contains(s, needle) ==
    \E i \in 1..(Len(s) - Len(needle) + 1) : SubSeq(s, i, i + Len(needle) - 1) = needle

\* str.strip()
RECURSIVE LStrip(_)
LStrip(s) ==
    IF s # <<>> /\ Head(s) \in Space THEN LStrip(Tail(s)) ELSE s

RECURSIVE RStrip(_)
RStrip(s) ==
    IF s # <<>> /\ s[Len(s)] \in Space THEN RStrip(SubSeq(s, 1, Len(s) - 1)) ELSE s

Strip(s) == RStrip(LStrip(s))

\* if config_part.endswith(','): config_part = config_part[:-1]
DropTrailingComma(s) ==
    IF s # <<>> /\ s[Len(s)] = "," THEN SubSeq(s, 1, Len(s) - 1) ELSE s

(***************************************************************************)
(* Regular expressions: Python's backtracking matcher.  M returns every    *)
(* way the expression matches at position i, in the order the engine       *)
(* tries them (greedy first); the engine's match is the first.             *)
(***************************************************************************)
Lit(c) == [t |-> "lit", c |-> c]
In(S) == [t |-> "in", s |-> S]
NotIn(S) == [t |-> "notin", s |-> S]
Star(r) == [t |-> "star", r |-> r]
Plus(r) == [t |-> "plus", r |-> r]
Cat(rs) == [t |-> "cat", rs |-> rs]
Grp(n, r) == [t |-> "grp", n |-> n, r |-> r]

NoGroups == << <<0, 0>>, <<0, 0>>, <<0, 0>> >>

RECURSIVE M(_, _, _, _)
RECURSIVE MCat(_, _, _, _, _)
RECURSIVE MStar(_, _, _, _)
RECURSIVE MPlus(_, _, _, _)

\* a single-lexeme expression (a literal or a class), and the lexemes it accepts
IsAtom(r) == r.t \in {"lit", "in", "notin"}

Accepts(r, c) ==
    CASE r.t = "lit" -> c = r.c
      [] r.t = "in" -> c \in r.s
      [] r.t = "notin" -> c \notin r.s

Min(S) == CHOOSE x \in S : \A y \in S : x <= y
Max(S) == CHOOSE x \in S : \A y \in S : x >= y

\* the end of the run of lexemes r accepts from i on: a repeated atom matches the
\* run's prefixes, longest first
RunEnd(r, s, i) ==
    LET stops == {j \in i..Len(s) : ~Accepts(r, s[j])}
    IN  IF stops = {} THEN Len(s) + 1 ELSE Min(stops)

M(re, s, i, g) ==
    CASE re.t = "lit" ->
           IF i <= Len(s) /\ s[i] = re.c THEN <<[e |-> i + 1, g |-> g]>> ELSE <<>>
      [] re.t = "in" ->
           IF i <= Len(s) /\ s[i] \in re.s THEN <<[e |-> i + 1, g |-> g]>> ELSE <<>>
      [] re.t = "notin" ->
           IF i <= Len(s) /\ s[i] \notin re.s THEN <<[e |-> i + 1, g |-> g]>> ELSE <<>>
      [] re.t = "cat" -> MCat(re.rs, 1, s, i, g)
      [] re.t = "star" -> MStar(re.r, s, i, g)
      [] re.t = "plus" -> MPlus(re.r, s, i, g)
      [] re.t = "grp" ->
           LET res == M(re.r, s, i, g)
           IN  [k \in 1..Len(res) |->
                   [e |-> res[k].e,
                    g |-> [res[k].g EXCEPT ![re.n] = <<i, res[k].e>>]]]

\* rs[k], then the rest of the sequence after each way rs[k] matches
MCat(rs, k, s, i, g) ==
    IF k > Len(rs) THEN <<[e |-> i, g |-> g]>>
    ELSE LET res == M(rs[k], s, i, g)
         IN  Concat([j \in 1..Len(res) |-> MCat(rs, k + 1, s, res[j].e, res[j].g)],
                    1, Len(res))

\* the iterations after the first: each way r matched (res), then r* again
MMore(r, s, res, i) ==
    Concat([j \in 1..Len(res) |->
               IF res[j].e > i THEN MStar(r, s, res[j].e, res[j].g) ELSE <<>>],
           1, Len(res))

\* greedy: one more iteration first, then stop here
MStar(r, s, i, g) ==
    IF IsAtom(r)
    THEN LET j == RunEnd(r, s, i)
         IN  [k \in 1..(j - i + 1) |-> [e |-> j + 1 - k, g |-> g]]
    ELSE MMore(r, s, M(r, s, i, g), i) \o <<[e |-> i, g |-> g]>>

\* one or more iterations, greedy
MPlus(r, s, i, g) ==
    IF IsAtom(r)
    THEN LET j == RunEnd(r, s, i)
         IN  [k \in 1..(j - i) |-> [e |-> j + 1 - k, g |-> g]]
    ELSE MMore(r, s, M(r, s, i, g), i)

\* a match object: b = start(0), e = end(0) (exclusive), g = the groups' spans;
\* b = 0 is None
NoMatch == [b |-> 0, e |-> 0, g |-> NoGroups]

\* re.search from pos: the leftmost position where the expression matches
Search(re, s, pos) ==
    LET hits == {p \in pos..(Len(s) + 1) : M(re, s, p, NoGroups) # <<>>}
    IN  IF hits = {} THEN NoMatch
        ELSE LET r == M(re, s, Min(hits), NoGroups)
             IN  [b |-> Min(hits), e |-> r[1].e, g |-> r[1].g]

\* re.finditer: the non-overlapping matches, left to right
RECURSIVE FindIterFrom(_, _, _)
FindIterFrom(re, s, pos) ==
    LET m == Search(re, s, pos)
    IN  IF m.b = 0 THEN <<>>
        ELSE <<m>> \o FindIterFrom(re, s, IF m.e > m.b THEN m.e ELSE m.e + 1)

FindIter(re, s) == FindIterFrom(re, s, 1)

\* match.group(n) / match.group(0)
Group(s, m, n) == SubSeq(s, m.g[n][1], m.g[n][2] - 1)
Group0(s, m) == SubSeq(s, m.b, m.e - 1)

\* re.sub: the text with each match replaced by its replacement
RECURSIVE Splice(_, _, _, _, _)
Splice(s, ms, reps, k, pos) ==
    IF k > Len(ms) THEN SubSeq(s, pos, Len(s))
    ELSE SubSeq(s, pos, ms[k].b - 1) \o reps[k] \o Splice(s, ms, reps, k + 1, ms[k].e)

(***************************************************************************)
(* update_all_providers.py: update_provider_config                         *)
(***************************************************************************)
WS == Star(In(Space))
W == Plus(In(Word))
NotBrace == Star(NotIn({"{", "}"}))

\* the guard written without the spaces the migrated files have: 'default:{' ...
AlreadyUpdated_NoSpace(content) ==
    /\ Contains(content, <<"default", ":", "{">>)
    /\ Contains(content, <<"providers", ":", "{">>)

\* the Idempotence Guard: 'default: {' in content and 'providers: {' in content
AlreadyUpdated(content) ==
    /\ Contains(content, <<"default", ":", " ", "{">>)
    /\ Contains(content, <<"providers", ":", " ", "{">>)

\* r'(\w+):\s*\{\s*apiKey:\s*[^}]+\}'
simple_pattern ==
    Cat(<<Grp(1, W), Lit(":"), WS, Lit("{"), WS, Lit("apiKey"), Lit(":"), WS,
          Plus(NotIn({"}"})), Lit("}")>>)

\* [^{}]*(?:\{[^{}]*\}[^{}]*)*
block_body ==
    Cat(<<NotBrace, Star(Cat(<<Lit("{"), NotBrace, Lit("}"), NotBrace>>))>>)

\* r'providers:\s*\{([^{}]*(?:\{[^{}]*\}[^{}]*)*)\}'
multiline_pattern ==
    Cat(<<Lit("providers"), Lit(":"), WS, Lit("{"), Grp(1, block_body), Lit("}")>>)

\* the loop body of replace_multiline_providers and of replace_const_config
ProviderEntry(providers_content, provider_match) ==
    LET provider_name == Group(providers_content, provider_match, 1)
        config_start == provider_match.b + Len(provider_name) + 1
        config_part ==
            DropTrailingComma(Strip(SubSeq(providers_content, config_start,
                                           provider_match.e - 1)))
    IN  Sp(10) \o provider_name \o <<":", " ", "{", "\n">>
        \o Sp(12) \o <<"default", ":", " ">> \o config_part \o <<",", "\n">>
        \o Sp(10) \o <<"}", ",", "\n">>

ProviderEntries(providers_content, provider_matches) ==
    Concat([k \in 1..Len(provider_matches) |->
               ProviderEntry(providers_content, provider_matches[k])],
           1, Len(provider_matches))

replace_multiline_providers(s, match) ==
    LET providers_content == Group(s, match, 1)
        provider_matches == FindIter(simple_pattern, providers_content)
    IN  IF provider_matches = <<>> THEN Group0(s, match)
        ELSE <<"providers", ":", " ", "{", "\n">>
             \o ProviderEntries(providers_content, provider_matches)
             \o Sp(8) \o <<"}">>

MultilinePass(content) ==
    LET ms == FindIter(multiline_pattern, content)
    IN  Splice(content, ms,
               [k \in 1..Len(ms) |-> replace_multiline_providers(content, ms[k])], 1, 1)

\* r'(\w+):\s*process\.env\.(\w+)'
env_pattern ==
    Cat(<<Grp(1, W), Lit(":"), WS, Lit("process"), Lit("."), Lit("env"), Lit("."),
          Grp(2, W)>>)

LowerAll(ws) == [k \in 1..Len(ws) |-> Lower(ws[k])]

replace_env_assignment(s, match) ==
    LET provider == LowerAll(Group(s, match, 1))
        env_var == Group(s, match, 2)
    IN  provider \o <<":", " ", "{", "\n">>
        \o Sp(12) \o <<"default", ":", " ", "{", " ", "apiKey", ":", " ",
                       "process", ".", "env", ".">> \o env_var
        \o <<" ", "}", ",", "\n">> \o Sp(10) \o <<"}">>

EnvPass(content) ==
    LET ms == FindIter(env_pattern, content)
    IN  Splice(content, ms,
               [k \in 1..Len(ms) |-> replace_env_assignment(content, ms[k])], 1, 1)

\* the return pattern without its apiKey: r'return\s*\{\s*(\w+):\s*\{\s*[^}]+\}\s*\}'
return_pattern_AnyKey ==
    Cat(<<Lit("return"), WS, Lit("{"), WS, Grp(1, W), Lit(":"), WS, Lit("{"), WS,
          Plus(NotIn({"}"})), Lit("}"), WS, Lit("}")>>)

\* r'return\s*\{\s*(\w+):\s*\{\s*apiKey:\s*[^}]+\}\s*\}'
return_pattern ==
    Cat(<<Lit("return"), WS, Lit("{"), WS, Grp(1, W), Lit(":"), WS, Lit("{"), WS,
          Lit("apiKey"), Lit(":"), WS, Plus(NotIn({"}"})), Lit("}"), WS, Lit("}")>>)

\* str.find(c, from) and str.rfind(c), as positions 1..Len (0: not found)
Find(s, c, from) ==
    LET at == {j \in from..Len(s) : s[j] = c}
    IN  IF at = {} \/ from = 0 THEN 0 ELSE Min(at)

RFind(s, c) ==
    LET at == {j \in 1..Len(s) : s[j] = c}
    IN  IF at = {} THEN 0 ELSE Max(at)

replace_return_config(s, match) ==
    LET g0 == Group0(s, match)
        provider == Group(s, match, 1)
        config_start == Find(g0, "{", Find(g0, ":", 1))
        config_end == RFind(g0, "}")
        config_part == SubSeq(g0, config_start, config_end)
    IN  <<"return", " ", "{", "\n">> \o Sp(4) \o provider \o <<":", " ", "{", "\n">>
        \o Sp(6) \o <<"default", ":", " ">> \o config_part \o <<",", "\n">>
        \o Sp(4) \o <<"}", ",", "\n">> \o Sp(2) \o <<"}">>

ReturnPass(content) ==
    LET ms == FindIter(return_pattern, content)
    IN  Splice(content, ms,
               [k \in 1..Len(ms) |-> replace_return_config(content, ms[k])], 1, 1)

\* r'(const\s+\w+\s*=\s*\{[^}]*providers:\s*)\{([^{}]*(?:\{[^{}]*\}[^{}]*)*)\}([^}]*\})'
const_pattern ==
    Cat(<<Grp(1, Cat(<<Lit("const"), Plus(In(Space)), W, WS, Lit("="), WS, Lit("{"),
                       Star(NotIn({"}"})), Lit("providers"), Lit(":"), WS>>)),
          Lit("{"), Grp(2, block_body), Lit("}"),
          Grp(3, Cat(<<Star(NotIn({"}"})), Lit("}")>>))>>)

replace_const_config(s, match) ==
    LET prefix == Group(s, match, 1)
        providers_content == Group(s, match, 2)
        suffix == Group(s, match, 3)
        provider_matches == FindIter(simple_pattern, providers_content)
    IN  IF provider_matches = <<>> THEN Group0(s, match)
        ELSE prefix \o <<"{", "\n">>
             \o ProviderEntries(providers_content, provider_matches)
             \o Sp(8) \o <<"}">> \o suffix

ConstPass(content) ==
    LET ms == FindIter(const_pattern, content)
    IN  Splice(content, ms,
               [k \in 1..Len(ms) |-> replace_const_config(content, ms[k])], 1, 1)

update_provider_config(content) ==
    IF AlreadyUpdated(content) THEN content
    ELSE ConstPass(ReturnPass(EnvPass(MultilinePass(content))))

(***************************************************************************)
(* update_providers.py: update_provider_configs                            *)
(***************************************************************************)
\* r'providers:\s*\{\s*(\w+):\s*\{\s*([^}]+)\s*\}\s*\}'
single_simple_pattern ==
    Cat(<<Lit("providers"), Lit(":"), WS, Lit("{"), WS, Grp(1, W), Lit(":"), WS,
          Lit("{"), WS, Grp(2, Plus(NotIn({"}"}))), WS, Lit("}"), WS, Lit("}")>>)

replace_simple(s, match) ==
    LET provider == Group(s, match, 1)
        config == Strip(Group(s, match, 2))
    IN  <<"providers", ":", " ", "{", "\n">> \o Sp(10) \o provider
        \o <<":", " ", "{", "\n">> \o Sp(12) \o <<"default", ":", " ", "{", " ">>
        \o config \o <<" ", "}", ",", "\n">> \o Sp(10) \o <<"}", ",", "\n">>
        \o Sp(8) \o <<"}">>

SimplePass(content) ==
    LET ms == FindIter(single_simple_pattern, content)
    IN  Splice(content, ms,
               [k \in 1..Len(ms) |-> replace_simple(content, ms[k])], 1, 1)

\* r'providers:\s*\{([^}]+(?:\{[^}]+\}[^}]*)+)\}'
multi_pattern ==
    Cat(<<Lit("providers"), Lit(":"), WS, Lit("{"),
          Grp(1, Cat(<<Plus(NotIn({"}"})),
                       Plus(Cat(<<Lit("{"), Plus(NotIn({"}"})), Lit("}"),
                                  Star(NotIn({"}"}))>>))>>)),
          Lit("}")>>)

\* r'(\w+):\s*\{([^}]+)\}'
provider_pattern ==
    Cat(<<Grp(1, W), Lit(":"), WS, Lit("{"), Grp(2, Plus(NotIn({"}"}))), Lit("}")>>)

MultiEntry(providers_content, m) ==
    LET provider == Group(providers_content, m, 1)
        config == DropTrailingComma(Strip(Group(providers_content, m, 2)))
    IN  Sp(10) \o provider \o <<":", " ", "{", "\n">>
        \o Sp(12) \o <<"default", ":", " ", "{", " ">> \o config
        \o <<" ", "}", ",", "\n">> \o Sp(10) \o <<"}", ",", "\n">>

replace_multi(s, match) ==
    LET providers_content == Group(s, match, 1)
        providers == FindIter(provider_pattern, providers_content)
    IN  IF Len(providers) <= 1 THEN Group0(s, match)
        ELSE <<"providers", ":", " ", "{", "\n">>
             \o Concat([k \in 1..Len(providers) |->
                           MultiEntry(providers_content, providers[k])],
                       1, Len(providers))
             \o Sp(8) \o <<"}">>

MultiPass(content) ==
    LET ms == FindIter(multi_pattern, content)
    IN  Splice(content, ms,
               [k \in 1..Len(ms) |-> replace_multi(content, ms[k])], 1, 1)

update_provider_configs(content) == MultiPass(SimplePass(content))

(***************************************************************************)
(* The texts the transforms are run on                                     *)
(***************************************************************************)
\* the most provider entries in one providers block
MaxProviders == 2

\* the k-th entry's provider name
Names == <<"openai", "anthropic", "google", "foo">>

BodyKinds == {"lit", "env", "other"}

\* the text between an entry's braces
Body(kind) ==
    CASE kind = "lit" -> <<"apiKey", ":", " ", "\"", "sk", "\"">>
      [] kind = "env" -> <<"apiKey", ":", " ", "process", ".", "env", ".", "KEY">>
      [] kind = "other" -> <<"baseUrl", ":", " ", "\"", "x", "\"">>

EnvExpr == <<"process", ".", "env", ".", "OPENAI_KEY">>

\* <name>: { <body> }
Entry(e) == <<e.name, ":", " ", "{", " ">> \o e.body \o <<" ", "}">>

InlineEntries(entries) ==
    Concat([k \in 1..Len(entries) |->
               (IF k = 1 THEN <<>> ELSE <<",", " ">>) \o Entry(entries[k])],
           1, Len(entries))

MultilineEntries(entries) ==
    Concat([k \in 1..Len(entries) |-> Sp(2) \o Entry(entries[k]) \o <<",", "\n">>],
           1, Len(entries))

\* providers: { <entries> }, on one line or one entry a line with trailing commas
Block(entries, layout) ==
    IF layout = "inline"
    THEN <<"providers", ":", " ", "{", " ">> \o InlineEntries(entries) \o <<" ", "}">>
    ELSE <<"providers", ":", " ", "{", "\n">> \o MultilineEntries(entries) \o <<"}">>

PlainText(which) ==
    CASE which = "object" ->
           <<"foo", ":", " ", "{", " ", "bar", ":", " ", "x", " ", "}">>
      [] which = "return" ->
           <<"return", " ", "{", " ", "foo", ":", " ", "{", " ", "bar", ":", " ", "x",
             " ", "}", " ", "}">>
      [] which = "const" ->
           <<"const", " ", "config", " ", "=", " ", "{", " ", "foo", ":", " ", "{",
             " ", "bar", ":", " ", "x", " ", "}", " ", "}">>
      [] which = "nested" ->
           <<"config", ":", " ", "{", " ", "foo", ":", " ", "{", " ", "bar", ":", " ",
             "x", " ", "}", " ", "}">>
      [] which = "empty" -> <<>>

\* already in the nested shape / nested and legacy entries side by side
MigratedText(which) ==
    IF which = "nested"
    THEN <<"providers", ":", " ", "{", " ", "openai", ":", " ", "{", " ", "default",
           ":", " ", "{", " ", "apiKey", ":", " ", "\"", "sk", "\"", " ", "}", " ",
           "}", " ", "}">>
    ELSE <<"default", ":", " ", "{", " ", "}", "\n">>
         \o Block(<<[name |-> "openai", body |-> Body("lit")]>>, "inline")
         \o <<"\n", "google", ":", " ">> \o EnvExpr

\* the text a shape stands for
Render(sh) ==
    CASE sh.kind = "block" ->
           IF sh.wrap = "const"
           THEN <<"const", " ", "config", " ", "=", " ", "{", " ">>
                \o Block(sh.entries, sh.layout) \o <<" ", "}">>
           ELSE Block(sh.entries, sh.layout)
      [] sh.kind = "env" -> <<sh.entries[1].name, ":", " ">> \o sh.entries[1].body
      [] sh.kind = "return" ->
           <<"return", " ", "{", " ">> \o Entry(sh.entries[1]) \o <<" ", "}">>
      [] sh.kind = "plain" -> PlainText(sh.layout)
      [] sh.kind = "migrated" -> MigratedText(sh.layout)

BlockShapes ==
    UNION {{[kind |-> "block", wrap |-> w, layout |-> l,
             entries |-> [k \in 1..n |-> [name |-> Names[k], body |-> Body(ks[k])]]] :
               w \in {"none", "const"}, l \in {"inline", "multiline"},
               ks \in [1..n -> BodyKinds]} : n \in 1..MaxProviders}

EnvShapes ==
    {[kind |-> "env", wrap |-> "none", layout |-> "inline",
      entries |-> <<[name |-> nm, body |-> EnvExpr]>>] : nm \in {"openai", "OpenAI"}}

ReturnShapes ==
    {[kind |-> "return", wrap |-> "none", layout |-> "inline",
      entries |-> <<[name |-> "openai", body |-> Body(k)]>>] : k \in {"lit", "env"}}

PlainShapes ==
    {[kind |-> "plain", wrap |-> "none", layout |-> w, entries |-> <<>>] :
        w \in {"object", "return", "const", "nested", "empty"}}

MigratedShapes ==
    {[kind |-> "migrated", wrap |-> "none", layout |-> w, entries |-> <<>>] :
        w \in {"nested", "mixed"}}

Shapes == BlockShapes \cup EnvShapes \cup ReturnShapes \cup PlainShapes \cup MigratedShapes

(***************************************************************************)
(* State                                                                   *)
(***************************************************************************)
VARIABLES
    prog,             \* which transform runs: "batch" / "single" ("none": a driver runs)
    shape,            \* the shape of the text the transform was called with
    input,            \* the text the transform was called with
    content,          \* the transform's local `content`
    pc,               \* the pass the transform is about to run
    fs,               \* batch main: the files of the list, [exists, text] each
    orig,             \* batch main: the files as they were when the run began
    idx,              \* batch main: the position in `files` of file_path
    bpc,              \* batch main: the statement about to run
    bcontent,         \* batch main: `content`
    updated_content,  \* batch main: `updated_content`
    opened,           \* batch main: the positions opened for writing, in order
    visited,          \* batch main: the positions the loop has finished with, in order
    outcome,          \* batch main: how each position ended
    bexit,            \* batch main: the exit status (-1: running)
    argc,             \* single main: len(sys.argv)
    sfile,            \* single main: the file named by the argument, [exists, text]
    sorig,            \* single main: the file as it was when the run began
    spc,              \* single main: the statement about to run
    scontent,         \* single main: `content`
    supdated,         \* single main: `updated_content`
    swrites,          \* single main: the texts written to the file, in order
    sfail,            \* single main: the failure that ended the run ("none": no failure)
    sexit             \* single main: the exit status (-1: running)

tvars == <<prog, shape, input, content, pc>>
bvars == <<fs, orig, idx, bpc, bcontent, updated_content, opened, visited, outcome, bexit>>
svars == <<argc, sfile, sorig, spc, scontent, supdated, swrites, sfail, sexit>>
vars == <<tvars, bvars, svars>>

NoShape == [kind |-> "plain", wrap |-> "none", layout |-> "empty", entries |-> <<>>]

TIdle ==
    /\ prog = "none" /\ shape = NoShape /\ input = <<>> /\ content = <<>>
    /\ pc = "done"

BIdle ==
    /\ fs = <<>> /\ orig = <<>> /\ idx = 0 /\ bpc = "idle" /\ bcontent = <<>>
    /\ updated_content = <<>> /\ opened = <<>> /\ visited = <<>> /\ outcome = <<>>
    /\ bexit = -1

SIdle ==
    /\ argc = 0 /\ sfile = [exists |-> FALSE, text |-> <<>>]
    /\ sorig = [exists |-> FALSE, text |-> <<>>] /\ spc = "idle" /\ scontent = <<>>
    /\ supdated = <<>> /\ swrites = <<>> /\ sfail = "none" /\ sexit = -1

(***************************************************************************)
(* The transforms, pass by pass                                            *)
(***************************************************************************)
Init ==
    /\ prog \in {"batch", "single"}
    /\ shape \in Shapes
    /\ input = Render(shape)
    /\ content = input
    /\ pc = IF prog = "batch" THEN "guard" ELSE "simple"
    /\ BIdle /\ SIdle

\* if 'default: {' in content and 'providers: {' in content: return content
Guard ==
    /\ prog = "batch" /\ pc = "guard"
    /\ \/ AlreadyUpdated(content) /\ pc' = "done"
       \/ ~AlreadyUpdated(content) /\ pc' = "multiline"
    /\ UNCHANGED <<prog, shape, input, content, bvars, svars>>

\* content = re.sub(multiline_pattern, replace_multiline_providers, content, ...)
Multiline ==
    /\ prog = "batch" /\ pc = "multiline"
    /\ content' = MultilinePass(content)
    /\ pc' = "env"
    /\ UNCHANGED <<prog, shape, input, bvars, svars>>

\* content = re.sub(env_pattern, replace_env_assignment, content)
Env ==
    /\ prog = "batch" /\ pc = "env"
    /\ content' = EnvPass(content)
    /\ pc' = "return"
    /\ UNCHANGED <<prog, shape, input, bvars, svars>>

\* content = re.sub(return_pattern, replace_return_config, content)
Return ==
    /\ prog = "batch" /\ pc = "return"
    /\ content' = ReturnPass(content)
    /\ pc' = "const"
    /\ UNCHANGED <<prog, shape, input, bvars, svars>>

\* content = re.sub(const_pattern, replace_const_config, content, ...); return content
Const ==
    /\ prog = "batch" /\ pc = "const"
    /\ content' = ConstPass(content)
    /\ pc' = "done"
    /\ UNCHANGED <<prog, shape, input, bvars, svars>>

\* content = re.sub(simple_pattern, replace_simple, content)
Simple ==
    /\ prog = "single" /\ pc = "simple"
    /\ content' = SimplePass(content)
    /\ pc' = "multi"
    /\ UNCHANGED <<prog, shape, input, bvars, svars>>

\* content = re.sub(multi_pattern, replace_multi, content, ...); return content
Multi ==
    /\ prog = "single" /\ pc = "multi"
    /\ content' = MultiPass(content)
    /\ pc' = "done"
    /\ UNCHANGED <<prog, shape, input, bvars, svars>>

Next == Guard \/ Multiline \/ Env \/ Return \/ Const \/ Simple \/ Multi

Spec == Init /\ [][Next]_vars

(***************************************************************************)
(* update_all_providers.py: main                                           *)
(***************************************************************************)
\* the length of the list `files`
NumFiles == 2

\* what a file of the list may hold when the run begins
BatchTexts ==
    {MigratedText("mixed"),
     Block(<<[name |-> "openai", body |-> Body("lit")]>>, "inline"),
     PlainText("object")}

FileStates ==
    {[exists |-> FALSE, text |-> <<>>]} \cup {[exists |-> TRUE, text |-> t] : t \in BatchTexts}

\* the exceptions a statement of the try block may raise
Raised == {"OSError", "UnicodeDecodeError", "MemoryError"}

\* the handler written as `except OSError`
ExceptionCaught_OSErrorOnly(exc) == exc = "OSError"

\* except Exception as e: every one of them is an Exception
ExceptionCaught(exc) == exc \in Raised

BatchInit ==
    /\ fs \in [1..NumFiles -> FileStates]
    /\ orig = fs
    /\ idx = 1
    /\ bpc = "exists"
    /\ bcontent = <<>>
    /\ updated_content = <<>>
    /\ opened = <<>>
    /\ visited = <<>>
    /\ outcome = [f \in 1..NumFiles |-> "pending"]
    /\ bexit = -1
    /\ TIdle /\ SIdle

\* the loop is done with file_path: on to the next one, or off the end of main
Advance(how) ==
    /\ visited' = Append(visited, idx)
    /\ outcome' = [outcome EXCEPT ![idx] = how]
    /\ idx' = idx + 1
    /\ IF idx + 1 > NumFiles
       THEN bpc' = "done" /\ bexit' = 0
       ELSE bpc' = "exists" /\ bexit' = bexit

\* an exception raised inside the try block: the except clause prints and the loop
\* goes on, or the exception leaves main
Raise(exc, how) ==
    IF ExceptionCaught(exc)
    THEN Advance(how)
    ELSE /\ bpc' = "crashed" /\ bexit' = 1
         /\ outcome' = [outcome EXCEPT ![idx] = how]
         /\ UNCHANGED <<visited, idx>>

\* if not os.path.exists(file_path): print(...); continue
BExists ==
    /\ bpc = "exists"
    /\ IF fs[idx].exists
       THEN bpc' = "read" /\ UNCHANGED <<visited, outcome, idx, bexit>>
       ELSE Advance("missing")
    /\ UNCHANGED <<fs, orig, bcontent, updated_content, opened, tvars, svars>>

\* with open(file_path, 'r') as f: content = f.read()
BRead ==
    /\ bpc = "read"
    /\ bcontent' = fs[idx].text
    /\ bpc' = "transform"
    /\ UNCHANGED <<fs, orig, idx, updated_content, opened, visited, outcome, bexit,
                   tvars, svars>>

BReadFails ==
    /\ bpc = "read"
    /\ \E exc \in {"OSError", "UnicodeDecodeError"} : Raise(exc, "read failed")
    /\ UNCHANGED <<fs, orig, bcontent, updated_content, opened, tvars, svars>>

\* updated_content = update_provider_config(content, file_path)
BTransform ==
    /\ bpc = "transform"
    /\ updated_content' = update_provider_config(bcontent)
    /\ bpc' = "compare"
    /\ UNCHANGED <<fs, orig, idx, bcontent, opened, visited, outcome, bexit, tvars, svars>>

BTransformFails ==
    /\ bpc = "transform"
    /\ Raise("MemoryError", "transform failed")
    /\ UNCHANGED <<fs, orig, bcontent, updated_content, opened, tvars, svars>>

\* if updated_content != content: ... else: print("No changes needed ...")
BCompare ==
    /\ bpc = "compare"
    /\ IF updated_content # bcontent
       THEN bpc' = "open" /\ UNCHANGED <<visited, outcome, idx, bexit>>
       ELSE Advance("unchanged")
    /\ UNCHANGED <<fs, orig, bcontent, updated_content, opened, tvars, svars>>

\* with open(file_path, 'w') as f: the file is truncated
BOpen ==
    /\ bpc = "open"
    /\ opened' = Append(opened, idx)
    /\ fs' = [fs EXCEPT ![idx].text = <<>>]
    /\ bpc' = "write"
    /\ UNCHANGED <<orig, idx, bcontent, updated_content, visited, outcome, bexit,
                   tvars, svars>>

BOpenFails ==
    /\ bpc = "open"
    /\ Raise("OSError", "write failed")
    /\ UNCHANGED <<fs, orig, bcontent, updated_content, opened, tvars, svars>>

\* f.write(updated_content); print(f"Updated {file_path}")
BWrite ==
    /\ bpc = "write"
    /\ fs' = [fs EXCEPT ![idx].text = updated_content]
    /\ Advance("updated")
    /\ UNCHANGED <<orig, bcontent, updated_content, opened, tvars, svars>>

BWriteFails ==
    /\ bpc = "write"
    /\ Raise("OSError", "write failed")
    /\ UNCHANGED <<fs, orig, bcontent, updated_content, opened, tvars, svars>>

BatchNext ==
    \/ BExists \/ BRead \/ BReadFails \/ BTransform \/ BTransformFails \/ BCompare
    \/ BOpen \/ BOpenFails \/ BWrite \/ BWriteFails

BatchSpec == BatchInit /\ [][BatchNext]_vars

(***************************************************************************)
(* update_providers.py: main                                               *)
(***************************************************************************)
\* the longest sys.argv tried (the script's name and up to two arguments)
MaxArgc == 3

SingleInit ==
    /\ argc \in 1..MaxArgc
    /\ sfile \in {[exists |-> FALSE, text |-> <<>>]}
                 \cup {[exists |-> TRUE, text |-> Render(sh)] : sh \in Shapes}
    /\ sorig = sfile
    /\ spc = "args"
    /\ scontent = <<>>
    /\ supdated = <<>>
    /\ swrites = <<>>
    /\ sfail = "none"
    /\ sexit = -1
    /\ TIdle /\ BIdle

\* except Exception as e: print(...); sys.exit(1)
SFail(why) ==
    /\ sfail' = why
    /\ spc' = "exit"
    /\ sexit' = 1

\* if len(sys.argv) != 2: print("Usage: ..."); sys.exit(1)
SArgs ==
    /\ spc = "args"
    /\ IF argc # 2
       THEN SFail("usage")
       ELSE spc' = "read" /\ UNCHANGED <<sfail, sexit>>
    /\ UNCHANGED <<argc, sfile, sorig, scontent, supdated, swrites, tvars, bvars>>

\* with open(file_path, 'r') as f: content = f.read()
SRead ==
    /\ spc = "read"
    /\ sfile.exists
    /\ scontent' = sfile.text
    /\ spc' = "transform"
    /\ UNCHANGED <<argc, sfile, sorig, supdated, swrites, sfail, sexit, tvars, bvars>>

\* the file is missing or cannot be read
SReadFails ==
    /\ spc = "read"
    /\ SFail("read")
    /\ UNCHANGED <<argc, sfile, sorig, scontent, supdated, swrites, tvars, bvars>>

\* the batch driver's `if updated_content != content` carried over: an unchanged
\* file is reported and not written
STransform_SkipUnchanged ==
    /\ spc = "transform"
    /\ supdated' = update_provider_configs(scontent)
    /\ IF update_provider_configs(scontent) # scontent
       THEN spc' = "open" /\ sexit' = sexit
       ELSE spc' = "exit" /\ sexit' = 0
    /\ UNCHANGED <<argc, sfile, sorig, scontent, swrites, sfail, tvars, bvars>>

\* updated_content = update_provider_configs(content)
STransform ==
    /\ spc = "transform"
    /\ supdated' = update_provider_configs(scontent)
    /\ spc' = "open"
    /\ UNCHANGED <<argc, sfile, sorig, scontent, swrites, sfail, sexit, tvars, bvars>>

\* with open(file_path, 'w') as f: the file is truncated
SOpen ==
    /\ spc = "open"
    /\ sfile' = [sfile EXCEPT !.text = <<>>]
    /\ spc' = "write"
    /\ UNCHANGED <<argc, sorig, scontent, supdated, swrites, sfail, sexit, tvars, bvars>>

SOpenFails ==
    /\ spc = "open"
    /\ SFail("open")
    /\ UNCHANGED <<argc, sfile, sorig, scontent, supdated, swrites, tvars, bvars>>

\* f.write(updated_content); print(f"Successfully updated {file_path}")
SWrite ==
    /\ spc = "write"
    /\ sfile' = [sfile EXCEPT !.text = supdated]
    /\ swrites' = Append(swrites, supdated)
    /\ spc' = "exit"
    /\ sexit' = 0
    /\ UNCHANGED <<argc, sorig, scontent, supdated, sfail, tvars, bvars>>

SWriteFails ==
    /\ spc = "write"
    /\ SFail("write")
    /\ UNCHANGED <<argc, sfile, sorig, scontent, supdated, swrites, tvars, bvars>>

SingleNext ==
    \/ SArgs \/ SRead \/ SReadFails \/ STransform \/ SOpen \/ SOpenFails
    \/ SWrite \/ SWriteFails

SingleSpec == SingleInit /\ [][SingleNext]_vars

(***************************************************************************)
(* Properties of the transforms                                            *)
(***************************************************************************)
\* a text up to whitespace and commas
Canon(text) == SelectSeq(text, LAMBDA t : t \notin Space \cup {","})

Count(text, tok) == Cardinality({k \in 1..Len(text) : text[k] = tok})

\* <name>: { default: { <body> } }, up to whitespace
NestedEntry(e) ==
    <<e.name, ":", "{", "default", ":", "{">> \o Canon(e.body) \o <<"}", "}">>

\* providers: { <name>: { default: { <body> } } ... }, up to whitespace
NestedBlock(entries) ==
    <<"providers", ":", "{">>
    \o Concat([k \in 1..Len(entries) |-> NestedEntry(entries[k])], 1, Len(entries))
    \o <<"}">>

GuardTriggers(text) ==
    /\ Contains(text, <<"default", ":", " ", "{">>)
    /\ Contains(text, <<"providers", ":", " ", "{">>)

BatchDone == prog = "batch" /\ pc = "done"
SingleDone == prog = "single" /\ pc = "done"

IsApiKeyBody(body) == body[1] = "apiKey"

\* C1: the batch transform turns a providers block of N flat entries
\* <name>: { <body> }, whatever the bodies' keys, into a providers block of exactly
\* the N entries <name>: { default: { <body> } }, same names, same order.
C1_MultiProviderCompleteness ==
    (BatchDone /\ shape.kind = "block" /\ ~GuardTriggers(input))
        => /\ Contains(Canon(content), NestedBlock(shape.entries))
           /\ Count(content, "default") = Len(shape.entries)

\* C2: the single-file transform wraps each entry of a providers block of two or
\* more entries <name>: { apiKey: <expr> } as <name>: { default: { apiKey: <expr> } }.
C2_SingleFileMultiProvider ==
    (SingleDone /\ shape.kind = "block" /\ Len(shape.entries) >= 2
       /\ \A k \in 1..Len(shape.entries) : IsApiKeyBody(shape.entries[k].body))
        => Contains(Canon(content), NestedBlock(shape.entries))

\* the constructs of a shape that a batch pass recognizes: a block's apiKey entries,
\* an environment assignment, a return literal
Recognized(sh) ==
    IF sh.kind \in {"env", "return"} THEN {sh.entries[1]}
    ELSE IF sh.kind = "block"
    THEN {sh.entries[k] : k \in {j \in 1..Len(sh.entries) : IsApiKeyBody(sh.entries[j].body)}}
    ELSE {}

\* C3: the provider name and the inner expression text of every construct a batch
\* pass recognizes appear in the batch transform's output exactly as in the input,
\* letter case included.
C3_ShapePreservation ==
    (BatchDone /\ ~GuardTriggers(input))
        => \A e \in Recognized(shape) :
              /\ Contains(content, <<e.name, ":">>)
              /\ Contains(content, e.body)

NoProvidersNoApiKey(text) ==
    /\ ~Contains(text, <<"providers", ":">>)
    /\ ~Contains(text, <<"apiKey">>)

\* C4 as stated: a text with neither `providers:` nor `apiKey` in it is returned
\* unchanged by both transforms.
C4_PassThroughOriginal ==
    (pc = "done" /\ NoProvidersNoApiKey(input)) => content = input

\* C4 as amended: a text with none of `providers:`, `apiKey` and `process.env.` in it
\* is returned unchanged by both transforms.
C4_PassThrough ==
    (pc = "done" /\ NoProvidersNoApiKey(input)
       /\ ~Contains(input, <<"process", ".", "env", ".">>))
        => content = input

C4_Witness ==
    /\ BatchDone /\ shape.kind = "plain" /\ shape.layout = "return"
    /\ NoProvidersNoApiKey(input) /\ content = input

\* C5: the batch transform is idempotent on the shapes its matchers recognize:
\* transforming its own output again changes nothing.
C5_Idempotence ==
    (BatchDone /\ shape.kind \in {"block", "env", "return"})
        => update_provider_config(content) = content

\* C9: for providers: { <name>: { apiKey: <expr> } }, <expr> a string literal or an
\* environment lookup, the batch passes together wrap the entry exactly once:
\* providers -> <name> -> default -> apiKey: <expr>, one `default` key.
C9_ExactlyOneWrapping ==
    (BatchDone /\ shape.kind = "block" /\ shape.wrap = "none"
       /\ Len(shape.entries) = 1 /\ IsApiKeyBody(shape.entries[1].body))
        => /\ Canon(content) = NestedBlock(shape.entries)
           /\ Count(content, "default") = 1

\* C10: for return { <name>: { apiKey: <expr> } } without process.env, the batch
\* transform's output has as many `{` as `}` and is
\* return { <name>: { default: { apiKey: <expr> } } } up to whitespace.
C10_ReturnBraceBalance ==
    (BatchDone /\ shape.kind = "return"
       /\ ~Contains(input, <<"process", ".", "env", ".">>))
        => /\ Count(content, "{") = Count(content, "}")
           /\ Canon(content) = <<"return", "{">> \o NestedEntry(shape.entries[1]) \o <<"}">>

(***************************************************************************)
(* Properties of the drivers                                               *)
(***************************************************************************)
WasOpened(f) == \E k \in 1..Len(opened) : opened[k] = f

\* C6: a file whose text holds both `default: {` and `providers: {` comes back from
\* update_provider_config unchanged, is never opened for writing and keeps its
\* text, legacy entries and environment assignments in it or not.
C6_IdempotenceGuard ==
    \A f \in 1..NumFiles :
        (orig[f].exists /\ GuardTriggers(orig[f].text))
            => /\ ~WasOpened(f)
               /\ fs[f] = orig[f]
               /\ (idx = f /\ bpc = "compare") => updated_content = bcontent

C6_Witness ==
    /\ bpc = "done"
    /\ \E f \in 1..NumFiles :
          /\ outcome[f] = "unchanged"
          /\ GuardTriggers(orig[f].text)
          /\ Contains(orig[f].text, Entry([name |-> "openai", body |-> Body("lit")]))
          /\ Contains(orig[f].text, EnvExpr)

Failed(f) == outcome[f] \in {"missing", "read failed", "transform failed", "write failed"}

LoopStatements == {"exists", "read", "transform", "compare", "open", "write"}

\* the statements left to run if nothing fails: those of the positions after idx,
\* and those of the loop body from bpc on
StatementsLeft ==
    (NumFiles + 1 - idx) * Cardinality(LoopStatements)
    + (CASE bpc = "exists" -> 6 [] bpc = "read" -> 5 [] bpc = "transform" -> 4
         [] bpc = "compare" -> 3 [] bpc = "open" -> 2 [] bpc = "write" -> 1
         [] OTHER -> 0)

C7_State ==
    /\ bpc # "crashed"
    /\ visited = [k \in 1..Len(visited) |-> k]
    /\ Len(visited) = idx - 1
    /\ \/ bpc = "done" /\ idx = NumFiles + 1 /\ bexit = 0
             /\ \A f \in 1..NumFiles : outcome[f] # "pending"
       \/ bpc \in LoopStatements /\ idx \in 1..NumFiles /\ bexit = -1
    /\ \A f \in 1..NumFiles :
          /\ outcome[f] = "updated" =>
                fs[f].text = update_provider_config(orig[f].text)
          /\ outcome[f] = "unchanged" =>
                /\ fs[f] = orig[f]
                /\ update_provider_config(orig[f].text) = orig[f].text
          /\ outcome[f] \in {"missing", "read failed", "transform failed"} =>
                fs[f] = orig[f]

\* C7: whatever happens to each file, the loop finishes with every position of the
\* list once and in order, no exception leaves it, a file that can be processed is
\* processed whatever failed before it, every step brings the run closer to its
\* end, and the run ends with exit status 0.
C7_FailSoft == []C7_State /\ [][StatementsLeft' < StatementsLeft]_vars

C7_Witness ==
    /\ bpc = "done" /\ bexit = 0
    /\ \E f \in 1..(NumFiles - 1) : Failed(f) /\ outcome[f] # "missing"
                                     /\ outcome[f + 1] = "updated"

\* C8: with exactly one argument and no read or write failure the file is written
\* exactly once, with update_provider_configs(content), changed or not, and the run
\* exits 0 (a file with no providers block is written back as it was); a wrong
\* argument count or a read or write failure ends the run with status 1, and after
\* a read failure the file has not been written.
C8_SingleFileDriver ==
    spc = "exit" =>
        /\ (argc = 2 /\ sfail = "none") =>
              /\ swrites = <<update_provider_configs(sorig.text)>>
              /\ sfile.text = update_provider_configs(sorig.text)
              /\ sexit = 0
              /\ ~Contains(sorig.text, <<"providers", ":">>) => sfile = sorig
        /\ (argc # 2 \/ sfail # "none") => sexit = 1
        /\ argc # 2 => sfail = "usage"
        /\ sfail \in {"usage", "read"} => (swrites = <<>> /\ sfile = sorig)

C8_Witness ==
    /\ spc = "exit" /\ argc = 2 /\ sfail = "none" /\ sexit = 0
    /\ sorig.text # <<>>
    /\ ~Contains(sorig.text, <<"providers", ":">>)
    /\ swrites = <<sorig.text>>
====
